---- MODULE Spec2Model ----
(***************************************************************************)
(* The request-execution pipeline of the Hedera Rust SDK                   *)
(* (sdk/rust/src/execute.rs) together with the client state it reads       *)
(* (src/client/mod.rs).  One execute call is a sequential task; its await  *)
(* points (make_request, the RPC, the backoff sleep) separate the actions. *)
(***************************************************************************)
EXTENDS Integers, Sequences, FiniteSets, TLC

\* ------------------------------------------------------------------ bounds
MaxNodeBackoff == 2    \* longest quarantine a per-node backoff yields, in ticks
MaxElapsedTime == 24   \* elapsed-time budget of the per-request backoff, in ticks
TinybarBits == 6       \* width of the 64-bit integers of the program
MaxEntityNum == 5      \* largest entity number of a file, contract, account or token id
MaxSeconds == 9        \* latest instant of an expiration time, in seconds
MaxSerials == 2        \* longest list of serial numbers of a token wipe
RateBits == 4          \* width of the 32-bit integers of the program

\* -------------------------------------------------------- program constants
max_attempts == 10
\* backoff::default of the backoff crate, in milliseconds
INITIAL_INTERVAL_MILLIS == 500
MAX_INTERVAL_MILLIS == 60000

\* ------------------------------------------------------------------ Option
None == <<>>
Some(x) == <<x>>
IsSome(o) == o # <<>>
Unwrap(o) == o[1]

\* ------------------------------------------------------------ value domains
\* the networks a client is built for, as the account ids (0.0.n) of their nodes
\* in index order: localhost (client/mod.rs 424-431) and a three-node network
Networks == { <<3>>, <<3, 4, 5>> }
\* a network large enough for a sample of two healthy nodes
SamplingNetwork == <<3, 4, 5, 6>>

\* the address maps set_network is called with
NetworkUpdates == { <<6, 4, 5>> }

\* the ledgers a client can be told it talks to
LedgerIds == {"mainnet", "testnet"}

\* i64 -> u64 and u64 -> i64 `as` casts, at the width TinybarBits
as_u64(x) == x % (2 ^ TinybarBits)
as_i64(v) == IF v >= 2 ^ (TinybarBits - 1) THEN v - 2 ^ TinybarBits ELSE v

\* mutant of as_i32: values above i32::MAX saturate
as_i32_Saturating(v) == IF v >= 2 ^ (RateBits - 1) THEN 2 ^ (RateBits - 1) - 1 ELSE v

\* i32 -> u32 and u32 -> i32 `as` casts, at the width RateBits
as_u32(x) == x % (2 ^ RateBits)
as_i32(v) == IF v >= 2 ^ (RateBits - 1) THEN v - 2 ^ RateBits ELSE v

\* Hbar amounts, in tinybars: a negative one, zero, one, i64::MAX
Amounts == {-1, 0, 1, 2 ^ (TinybarBits - 1) - 1}
\* durations in milliseconds
BackoffSettings == {250, 8000}
\* update periods in seconds
PeriodSettings == {None, Some(3600)}

\* what the client's setters are called with
MaxAttemptsSettings == {2}
RequestTimeoutSettings == {Some(3)}
Operators == {"op1"}
\* the operators set_operator is called with while a call is running
SwappedOperators == {"op2"}

\* tonic::Code values a transport error can carry
TransportCodes ==
    {"Unavailable", "ResourceExhausted", "Internal", "DeadlineExceeded", "Unknown"}

\* hedera_proto ResponseCodeEnum: wire integer -> variant
ResponseCodeEnum ==
    (0 :> "Ok") @@ (1 :> "InvalidTransaction") @@ (4 :> "TransactionExpired")
    @@ (12 :> "Busy") @@ (22 :> "Success") @@ (67 :> "PlatformNotActive")
    @@ (69 :> "PlatformTransactionNotCreated")
UnrecognizedCodes == {-1, 9999}
WireStatusCodes == DOMAIN ResponseCodeEnum \cup UnrecognizedCodes

\* ResponseCodeEnum::from_i32
from_i32(i) == IF i \in DOMAIN ResponseCodeEnum THEN Some(ResponseCodeEnum[i]) ELSE None

TransactionId(payer, valid_start) == [payer |-> payer, valid_start |-> valid_start]

\* the explicit transaction id a request may carry
ExplicitTransactionIds == {TransactionId("user", 0)}

\* the explicit node lists a request may carry
ExplicitNodeLists == { <<>>, <<3>>, <<4, 3>>, <<3, 9>> }

\* ------------------------------------------------------------------- errors
GrpcStatus(code) == [kind |-> "GrpcStatus", code |-> code]
PreCheckStatus(status, transaction_id) ==
    [kind |-> "PreCheckStatus", status |-> status, transaction_id |-> transaction_id]
ResponseStatusUnrecognized(i) == [kind |-> "ResponseStatusUnrecognized", code |-> i]
TimedOut(e) == [kind |-> "TimedOut", source |-> e]
MaxAttemptsExceeded(e) == [kind |-> "MaxAttemptsExceeded", source |-> e]
NodeAccountUnknown == [kind |-> "NodeAccountUnknown"]
NoPayerAccountOrTransactionId == [kind |-> "NoPayerAccountOrTransactionId"]
CannotValidateChecksum == [kind |-> "CannotValidateChecksum"]
FromProtobuf == [kind |-> "FromProtobuf"]
MakeRequestError == [kind |-> "MakeRequestError"]
\* Option::unwrap on None
Panic == [kind |-> "Panic"]

VARIABLES
    \* client
    operator,                     \* Option<AccountId> of the operator
    regenerate_transaction_ids,   \* ClientInner.regenerate_transaction_ids
    client_backoff,               \* ClientInner.backoff
    auto_validate_checksums,      \* ClientInner.auto_validate_checksums
    ledger_id,                    \* ClientInner.ledger_id
    max_transaction_fee_tinybar,  \* ClientInner.max_transaction_fee_tinybar
    max_query_payment_tinybar,    \* ClientInner.max_query_payment_tinybar
    network_update_tx,            \* the period held by ClientInner.network_update_tx
    call,                         \* the latest call of a tunable's setter
    network,                      \* node index -> account id
    unhealthy_until,              \* node index -> ticks from now to the node's
                                  \* unhealthy_until instant (0: it has passed)
    now,                          \* the clock
    \* the request being executed
    executable,
    \* locals of execute
    pc,
    backoff,
    last_error,
    explicit_transaction_id,
    transaction_id,
    explicit_node_indexes,
    attempt,                      \* outer iterations begun
    sample,                       \* node indexes of the current outer iteration
    pos,                          \* position in sample of the node being attempted
    request,                      \* what the last make_request was given / returned
    result,                       \* Option<Result> of the call
    \* observation
    requests,                     \* make_request calls so far
    rpcs,                         \* RPCs issued so far
    sleeps,                       \* backoff sleeps so far
    answer,                       \* the outcome of the latest RPC
    \* request bodies and decoded messages
    system_delete,                \* a SystemDeleteTransactionData being built
    token_wipe,                   \* a TokenWipeTransactionData being built
    exchange_rate_set,            \* Option of the ExchangeRateSet message decoded
    exchange_rates                \* Option of the Result of decoding it

config_vars == <<auto_validate_checksums, ledger_id, max_transaction_fee_tinybar,
                 max_query_payment_tinybar, network_update_tx, call>>
client_vars == <<operator, regenerate_transaction_ids, client_backoff, network,
                 config_vars, unhealthy_until, now>>
local_vars == <<pc, backoff, last_error, explicit_transaction_id, transaction_id,
                explicit_node_indexes, attempt, sample, pos, request, result>>
obs_vars == <<requests, rpcs, sleeps, answer>>
data_vars == <<system_delete, token_wipe, exchange_rate_set, exchange_rates>>
vars == <<client_vars, executable, local_vars, obs_vars, data_vars>>

\* ------------------------------------------------- the network (client side)
\* Client::generate_transaction_id: an id paid by the operator, valid from now
generate_transaction_id(op, t) ==
    IF IsSome(op) THEN Some(TransactionId(Unwrap(op), t)) ELSE None

\* Node health: unhealthy_until <= now
is_healthy(until, i) == until[i] = 0

\* mutant of healthy_node_indexes: no fallback when no node is healthy
healthy_node_indexes_NoFallback(until) ==
    LET all == [i \in DOMAIN until |-> i]
        IsHealthy(i) == is_healthy(until, i)
    IN  SelectSeq(all, IsHealthy)

\* Network::healthy_node_indexes: the healthy nodes, all nodes when none is
healthy_node_indexes(until) ==
    LET all == [i \in DOMAIN until |-> i]
        IsHealthy(i) == is_healthy(until, i)
        healthy == SelectSeq(all, IsHealthy)
    IN  IF healthy = <<>> THEN all ELSE healthy

\* Network::node_indexes_for_ids: Ok(indexes in the given order), or the error
node_indexes_for_ids(net, ids) ==
    IF \A k \in DOMAIN ids : \E i \in DOMAIN net : net[i] = ids[k]
    THEN [ok |-> TRUE,
          value |-> [k \in DOMAIN ids |-> CHOOSE i \in DOMAIN net : net[i] = ids[k]]]
    ELSE [ok |-> FALSE, value |-> NodeAccountUnknown]

\* mutant of mark_node_unhealthy: the whole network is quarantined
mark_node_unhealthy_All(until, i, delay) == [j \in DOMAIN until |-> delay]

\* Network::mark_node_unhealthy: unhealthy_until = now + the next per-node delay
mark_node_unhealthy(until, i, delay) == [until EXCEPT ![i] = delay]

\* Network::update_from_addresses: the health of the nodes of the new network,
\* kept for the nodes (by account id) that were in the old one, fresh otherwise
update_from_addresses(net, until, new) ==
    [i \in DOMAIN new |->
        IF \E j \in DOMAIN net : net[j] = new[i]
        THEN until[CHOOSE j \in DOMAIN net : net[j] = new[i]]
        ELSE 0]

\* the clock advances by d: every unhealthy_until instant comes d closer
Elapse(until, d) == [i \in DOMAIN until |-> IF until[i] > d THEN until[i] - d ELSE 0]

\* --------------------------------------------------- pure pieces of execute
\* mutant of InitialTransactionId: a generated id is preferred to the explicit
InitialTransactionId_GeneratedFirst(requires, explicit, generated) ==
    IF requires THEN (IF IsSome(generated) THEN generated ELSE explicit) ELSE None

\* execute.rs 80-82: the transaction id the call starts with
InitialTransactionId(requires, explicit, generated) ==
    IF requires THEN (IF IsSome(explicit) THEN explicit ELSE generated) ELSE None

\* mutant of candidate_node_indexes: explicit nodes pass the health filter too
candidate_node_indexes_FiltersExplicit(explicit, until) ==
    LET IsHealthy(i) == is_healthy(until, i)
    IN  IF IsSome(explicit) THEN SelectSeq(Unwrap(explicit), IsHealthy)
        ELSE healthy_node_indexes(until)

\* execute.rs 101-105: the explicit nodes, else the healthy nodes of the network
candidate_node_indexes(explicit, until) ==
    IF IsSome(explicit) THEN Unwrap(explicit) ELSE healthy_node_indexes(until)

\* mutant of node_sample_amount: a third rounded down
node_sample_amount_RoundsDown(len, is_explicit) ==
    IF is_explicit THEN len ELSE len \div 3

\* mutant of node_sample_amount: every candidate is sampled
node_sample_amount_All(len, is_explicit) == len

\* execute.rs 107-111
node_sample_amount(len, is_explicit) ==
    IF is_explicit THEN len ELSE (len + 2) \div 3

\* mutant of IndexSamples: drawn with replacement
IndexSamples_WithReplacement(length, amount) == [1 .. amount -> 1 .. length]

\* rand::seq::index::sample(rng, length, amount): amount distinct indexes of
\* 1..length, in any order
IndexSamples(length, amount) ==
    { s \in [1 .. amount -> 1 .. length] :
        \A a, b \in 1 .. amount : a # b => s[a] # s[b] }

\* mutants of IsUnhealthyCode: RESOURCE_EXHAUSTED forgotten; INTERNAL added
IsUnhealthyCode_OnlyUnavailable(code) == code = "Unavailable"
IsUnhealthyCode_WithInternal(code) ==
    code \in {"Unavailable", "ResourceExhausted", "Internal"}

\* execute.rs 126-140: the transport statuses that demote the node and move on
IsUnhealthyCode(code) == code \in {"Unavailable", "ResourceExhausted"}

\* mutants of PreCheckArm: OK retried on the next node; BUSY fatal; the
\* explicit-id guard of TransactionExpired dropped
PreCheckArm_OkRetries(status, explicit) ==
    CASE status \in {"Ok", "Busy", "PlatformNotActive"} -> "next_node"
      [] status = "TransactionExpired" /\ explicit = None -> "regenerate"
      [] OTHER -> "fail"
PreCheckArm_BusyFails(status, explicit) ==
    CASE status = "Ok" -> "return"
      [] status = "PlatformNotActive" -> "next_node"
      [] status = "TransactionExpired" /\ explicit = None -> "regenerate"
      [] OTHER -> "fail"
PreCheckArm_IgnoresExplicit(status, explicit) ==
    CASE status = "Ok" -> "return"
      [] status \in {"Busy", "PlatformNotActive"} -> "next_node"
      [] status = "TransactionExpired" -> "regenerate"
      [] OTHER -> "fail"

\* mutant of PreCheckArm: SUCCESS returns the response like OK
PreCheckArm_SuccessReturns(status, explicit) ==
    CASE status \in {"Ok", "Success"} -> "return"
      [] status \in {"Busy", "PlatformNotActive"} -> "next_node"
      [] status = "TransactionExpired" /\ explicit = None -> "regenerate"
      [] OTHER -> "fail"

\* execute.rs 147-179: what a recognised pre-check status makes the loop do
PreCheckArm(status, explicit) ==
    CASE status = "Ok" -> "return"
      [] status \in {"Busy", "PlatformNotActive"} -> "next_node"
      [] status = "TransactionExpired" /\ explicit = None -> "regenerate"
      [] OTHER -> "fail"

\* mutant of ClassifyPreCheck: an unknown integer defaults to OK
ClassifyPreCheck_UnknownIsOk(pre_check_status, explicit) ==
    LET code == from_i32(pre_check_status)
    IN  IF IsSome(code) THEN PreCheckArm(Unwrap(code), explicit) ELSE "return"

\* execute.rs 146-185: the arm a pre-check status integer selects
ClassifyPreCheck(pre_check_status, explicit) ==
    LET code == from_i32(pre_check_status)
    IN  IF IsSome(code) THEN PreCheckArm(Unwrap(code), explicit) ELSE "unrecognized"

\* mutant of RegeneratedTransactionId: the expired id is kept
RegeneratedTransactionId_Keeps(current, generated) == current

\* execute.rs 171: the id the call goes on with after a TransactionExpired
RegeneratedTransactionId(current, generated) == generated

\* mutant of LastError: the first error of the call is kept
LastError_KeepsFirst(previous, error) ==
    IF IsSome(previous) THEN previous ELSE Some(error)

\* execute.rs 132, 163, 170: last_error = Some(error)
LastError(previous, error) == Some(error)

\* E::make_response
make_response(response, context, node_account_id, tx) ==
    [kind |-> "Ok", response |-> response, context |-> context,
     node_account_id |-> node_account_id, transaction_id |-> tx]

\* ---------------------------------------------------------- request bodies
\* FileId, ContractId, AccountId, TokenId: shard.realm.num
EntityIds == [shard : {0}, realm : {0}, num : 1 .. MaxEntityNum]
\* OffsetDateTime, as seconds since the epoch
OffsetDateTimes == [unix_timestamp : 0 .. MaxSeconds]

\* ToProtobuf of an entity id: the three numbers as i64
EntityId_to_protobuf(id) ==
    [shard_num |-> as_i64(id.shard), realm_num |-> as_i64(id.realm),
     num |-> as_i64(id.num)]

\* FromProtobuf of an entity id: the three numbers as u64
EntityId_from_protobuf(pb) ==
    [shard |-> as_u64(pb.shard_num), realm |-> as_u64(pb.realm_num),
     num |-> as_u64(pb.num)]

\* OffsetDateTime -> services::TimestampSeconds and back
TimestampSeconds_from(t) == [seconds |-> t.unix_timestamp]
OffsetDateTime_from(pb) == [unix_timestamp |-> pb.seconds]

\* Option::map
Map_to_protobuf(o) == IF IsSome(o) THEN Some(EntityId_to_protobuf(Unwrap(o))) ELSE None

\* #[derive(Default)] of SystemDeleteTransactionData
SystemDeleteTransactionData_default ==
    [expiration_time |-> None, file_id |-> None, contract_id |-> None]

\* #[derive(Default)] of TokenWipeTransactionData
TokenWipeTransactionData_default ==
    [account_id |-> None, token_id |-> None, amount |-> None, serials |-> <<>>]

\* ---------------------------------------------------------------- the state
\* mutant of ClientBackoff_default: the defaults of the other Hedera SDKs
ClientBackoff_default_Sdk ==
    [max_backoff |-> 8000, initial_backoff |-> 250, max_attempts |-> 10,
     request_timeout |-> None, grpc_timeout |-> None]

\* client/mod.rs 78-88, durations in milliseconds
ClientBackoff_default ==
    [max_backoff |-> MAX_INTERVAL_MILLIS, initial_backoff |-> INITIAL_INTERVAL_MILLIS,
     max_attempts |-> 10, request_timeout |-> None, grpc_timeout |-> None]

\* a client just built for the network net, with no call in progress
Constructed(net) ==
    /\ operator = None
    /\ regenerate_transaction_ids = TRUE
    /\ client_backoff = ClientBackoff_default
    /\ auto_validate_checksums = FALSE
    /\ ledger_id = None
    /\ max_transaction_fee_tinybar = 0
    /\ max_query_payment_tinybar = 0
    /\ network_update_tx = [period |-> None, notified |-> FALSE]
    /\ call = None
    /\ network = net
    /\ unhealthy_until = [i \in DOMAIN network |-> 0]
    /\ now = 0
    /\ executable = None
    /\ pc = "idle"
    /\ backoff = None
    /\ last_error = None
    /\ explicit_transaction_id = None
    /\ transaction_id = None
    /\ explicit_node_indexes = None
    /\ attempt = 0
    /\ sample = <<>>
    /\ pos = 0
    /\ request = None
    /\ result = None
    /\ requests = 0
    /\ rpcs = 0
    /\ sleeps = 0
    /\ answer = None
    /\ system_delete = SystemDeleteTransactionData_default
    /\ token_wipe = TokenWipeTransactionData_default
    /\ exchange_rate_set = None
    /\ exchange_rates = None

Init == \E net \in Networks : Constructed(net)

\* ------------------------------------------------------- client operations
\* Client::set_operator
set_operator(id) ==
    /\ pc = "idle"
    /\ operator' = Some(id)
    /\ UNCHANGED <<data_vars, regenerate_transaction_ids, client_backoff, network, config_vars,
                   unhealthy_until, now, executable, local_vars, obs_vars>>

\* Client::set_default_regenerate_transaction_id
set_default_regenerate_transaction_id(value) ==
    /\ pc = "idle"
    /\ regenerate_transaction_ids' = value
    /\ UNCHANGED <<data_vars, operator, client_backoff, network, config_vars, unhealthy_until, now,
                   executable, local_vars, obs_vars>>

\* Client::set_request_timeout
set_request_timeout(timeout) ==
    /\ pc = "idle"
    /\ client_backoff' = [client_backoff EXCEPT !.request_timeout = timeout]
    /\ UNCHANGED <<data_vars, operator, regenerate_transaction_ids, network, config_vars, unhealthy_until,
                   now, executable, local_vars, obs_vars>>

\* Client::set_max_attempts
set_max_attempts(n) ==
    /\ pc = "idle"
    /\ client_backoff' = [client_backoff EXCEPT !.max_attempts = n]
    /\ UNCHANGED <<data_vars, operator, regenerate_transaction_ids, network, config_vars, unhealthy_until,
                   now, executable, local_vars, obs_vars>>

\* Client::set_ledger_id
set_ledger_id(id) ==
    /\ pc = "idle"
    /\ ledger_id' = id
    /\ UNCHANGED <<data_vars, operator, regenerate_transaction_ids, client_backoff, network,
                   auto_validate_checksums, max_transaction_fee_tinybar,
                   max_query_payment_tinybar, network_update_tx, call,
                   unhealthy_until, now, executable, local_vars, obs_vars>>

\* Client::set_auto_validate_checksums
set_auto_validate_checksums(value) ==
    /\ pc = "idle"
    /\ auto_validate_checksums' = value
    /\ UNCHANGED <<data_vars, operator, regenerate_transaction_ids, client_backoff, network,
                   ledger_id, max_transaction_fee_tinybar,
                   max_query_payment_tinybar, network_update_tx, call,
                   unhealthy_until, now, executable, local_vars, obs_vars>>

\* a setter call as recorded in call
Call(op, arg, outcome) == [op |-> op, arg |-> arg, outcome |-> outcome]

\* Client::min_backoff, Client::max_backoff
min_backoff(b) == b.initial_backoff
max_backoff(b) == b.max_backoff

\* Client::set_min_backoff
set_min_backoff(d) ==
    /\ pc = "idle"
    /\ client_backoff' = [client_backoff EXCEPT !.max_backoff = d]
    /\ call' = Some(Call("set_min_backoff", d, "Ok"))
    /\ UNCHANGED <<data_vars, operator, regenerate_transaction_ids, network,
                   auto_validate_checksums, ledger_id, max_transaction_fee_tinybar,
                   max_query_payment_tinybar, network_update_tx,
                   unhealthy_until, now, executable, local_vars, obs_vars>>

\* Client::set_max_backoff
set_max_backoff(d) ==
    /\ pc = "idle"
    /\ client_backoff' = [client_backoff EXCEPT !.max_backoff = d]
    /\ call' = Some(Call("set_max_backoff", d, "Ok"))
    /\ UNCHANGED <<data_vars, operator, regenerate_transaction_ids, network,
                   auto_validate_checksums, ledger_id, max_transaction_fee_tinybar,
                   max_query_payment_tinybar, network_update_tx,
                   unhealthy_until, now, executable, local_vars, obs_vars>>

\* Client::network_update_period
network_update_period(tx) == tx.period

\* watch::Sender::send_if_modified with the closure of
\* Client::set_network_update_period: the closure answers whether it modified
\* the value, and the receivers are notified when it says so
send_if_modified(tx, period) ==
    LET changed == tx.period = period
    IN  [period |-> IF changed THEN period ELSE tx.period,
         notified |-> tx.notified \/ changed]

\* Client::set_network_update_period
set_network_update_period(period) ==
    /\ pc = "idle"
    /\ network_update_tx' = send_if_modified(network_update_tx, period)
    /\ call' = Some(Call("set_network_update_period", period, "Ok"))
    /\ UNCHANGED <<data_vars, operator, regenerate_transaction_ids, client_backoff, network,
                   auto_validate_checksums, ledger_id, max_transaction_fee_tinybar,
                   max_query_payment_tinybar,
                   unhealthy_until, now, executable, local_vars, obs_vars>>

\* mutant of max_tinybar: zero is an amount like any other
max_tinybar_ZeroIsSome(val) == Some(as_i64(val))

\* Client::default_max_transaction_fee, Client::default_max_query_payment
max_tinybar(val) == IF val > 0 THEN Some(as_i64(val)) ELSE None

\* Client::set_default_max_transaction_fee: the assertion, then the store
set_default_max_transaction_fee(amount) ==
    /\ pc = "idle"
    /\ IF amount >= 0
       THEN /\ max_transaction_fee_tinybar' = as_u64(amount)
            /\ call' = Some(Call("set_default_max_transaction_fee", amount, "Ok"))
       ELSE /\ max_transaction_fee_tinybar' = max_transaction_fee_tinybar
            /\ call' = Some(Call("set_default_max_transaction_fee", amount, "Panic"))
    /\ UNCHANGED <<data_vars, operator, regenerate_transaction_ids, client_backoff, network,
                   auto_validate_checksums, ledger_id, max_query_payment_tinybar,
                   network_update_tx,
                   unhealthy_until, now, executable, local_vars, obs_vars>>

\* Client::set_default_max_query_payment: the assertion, then the store
set_default_max_query_payment(amount) ==
    /\ pc = "idle"
    /\ IF amount >= 0
       THEN /\ max_query_payment_tinybar' = as_u64(amount)
            /\ call' = Some(Call("set_default_max_query_payment", amount, "Ok"))
       ELSE /\ max_query_payment_tinybar' = max_query_payment_tinybar
            /\ call' = Some(Call("set_default_max_query_payment", amount, "Panic"))
    /\ UNCHANGED <<data_vars, operator, regenerate_transaction_ids, client_backoff, network,
                   auto_validate_checksums, ledger_id, max_transaction_fee_tinybar,
                   network_update_tx,
                   unhealthy_until, now, executable, local_vars, obs_vars>>

\* ------------------------------------------------------------------ execute
Executables ==
    [requires_transaction_id : BOOLEAN,
     transaction_id : {None} \cup {Some(t) : t \in ExplicitTransactionIds},
     node_account_ids : {None} \cup {Some(l) : l \in ExplicitNodeLists}]

\* execute.rs 65-90: entry, up to the outer loop
Execute(e) ==
    /\ pc = "idle"
    /\ executable' = Some(e)
    /\ backoff' = Some([start_time |-> now])
    /\ last_error' = None
    /\ explicit_transaction_id' = e.transaction_id
    /\ transaction_id' = InitialTransactionId(e.requires_transaction_id, e.transaction_id,
                                              generate_transaction_id(operator, now))
    /\ LET indexes == IF IsSome(e.node_account_ids)
                      THEN node_indexes_for_ids(network, Unwrap(e.node_account_ids))
                      ELSE [ok |-> TRUE, value |-> None]
       IN  IF indexes.ok
           THEN /\ explicit_node_indexes' =
                      (IF IsSome(e.node_account_ids) THEN Some(indexes.value) ELSE None)
                /\ pc' = "loop"
                /\ result' = None
           ELSE /\ explicit_node_indexes' = None
                /\ pc' = "done"
                /\ result' = Some(indexes.value)
    /\ UNCHANGED <<data_vars, client_vars, attempt, sample, pos, request, obs_vars>>

\* execute.rs 96-114: an outer iteration begins and draws its sample
SelectNodes ==
    /\ pc = "loop"
    /\ attempt < max_attempts
    /\ attempt' = attempt + 1
    /\ LET node_indexes == candidate_node_indexes(explicit_node_indexes, unhealthy_until)
           amount == node_sample_amount(Len(node_indexes), IsSome(explicit_node_indexes))
       IN  \E s \in IndexSamples(Len(node_indexes), amount) :
               sample' = [k \in 1 .. amount |-> node_indexes[s[k]]]
    /\ pos' = 1
    /\ pc' = IF sample' = <<>> THEN "backoff" ELSE "make_request"
    /\ UNCHANGED <<data_vars, client_vars, executable, backoff, last_error, explicit_transaction_id,
                   transaction_id, explicit_node_indexes, request, result, obs_vars>>

\* execute.rs 96, 198-199: the attempts are used up
AttemptsExhausted ==
    /\ pc = "loop"
    /\ attempt >= max_attempts
    /\ result' = IF IsSome(last_error)
                 THEN Some(MaxAttemptsExceeded(Unwrap(last_error)))
                 ELSE Some(Panic)
    /\ pc' = "done"
    /\ UNCHANGED <<data_vars, client_vars, executable, backoff, last_error, explicit_transaction_id,
                   transaction_id, explicit_node_indexes, attempt, sample, pos, request,
                   obs_vars>>

\* execute.rs 116-123: the request for the next node of the sample is built
\* and handed to E::execute
MakeRequest ==
    /\ pc = "make_request"
    /\ requests' = requests + 1
    /\ request' = Some([transaction_id |-> transaction_id,
                        node_index |-> sample[pos],
                        node_account_id |-> network[sample[pos]],
                        context |-> requests + 1])
    /\ rpcs' = rpcs + 1
    /\ pc' = "rpc"
    /\ UNCHANGED <<data_vars, client_vars, executable, backoff, last_error, explicit_transaction_id,
                   transaction_id, explicit_node_indexes, attempt, sample, pos, result,
                   sleeps, answer>>

\* execute.rs 120-121: make_request fails, the error is returned
MakeRequestFails ==
    /\ pc = "make_request"
    /\ requests' = requests + 1
    /\ result' = Some(MakeRequestError)
    /\ pc' = "done"
    /\ UNCHANGED <<data_vars, client_vars, executable, backoff, last_error, explicit_transaction_id,
                   transaction_id, explicit_node_indexes, attempt, sample, pos, request,
                   rpcs, sleeps, answer>>

\* mutants of Continue: every `continue` goes through the backoff; the
\* `continue` tries the same node again
Continue_ThroughBackoff == pos' = pos /\ pc' = "backoff"
Continue_SameNode == pos' = pos /\ pc' = "make_request"

\* `continue` of the inner loop: the next node, or the end of the sample
Continue ==
    IF pos < Len(sample)
    THEN pos' = pos + 1 /\ pc' = "make_request"
    ELSE pos' = pos /\ pc' = "backoff"

\* execute.rs 123-142: the RPC fails with a transport status
TransportError(code) ==
    /\ pc = "rpc"
    /\ now' = now + 1
    /\ answer' = Some([kind |-> "Status", code |-> code])
    /\ IF IsUnhealthyCode(code)
       THEN /\ \E delay \in 1 .. MaxNodeBackoff :
                  unhealthy_until' = mark_node_unhealthy(Elapse(unhealthy_until, 1),
                                         Unwrap(request).node_index, delay)
            /\ last_error' = LastError(last_error, GrpcStatus(code))
            /\ Continue
            /\ result' = result
       ELSE /\ result' = Some(GrpcStatus(code))
            /\ pc' = "done"
            /\ unhealthy_until' = Elapse(unhealthy_until, 1)
            /\ UNCHANGED <<data_vars, last_error, pos>>
    /\ UNCHANGED <<data_vars, operator, regenerate_transaction_ids, client_backoff, network, config_vars, executable, backoff,
                   explicit_transaction_id, transaction_id, explicit_node_indexes,
                   attempt, sample, request, requests, rpcs, sleeps>>

\* execute.rs 144: the pre-check status of the response cannot be read
DecodeFailure ==
    /\ pc = "rpc"
    /\ now' = now + 1
    /\ answer' = Some([kind |-> "Undecodable"])
    /\ result' = Some(FromProtobuf)
    /\ pc' = "done"
    /\ unhealthy_until' = Elapse(unhealthy_until, 1)
    /\ UNCHANGED <<data_vars, operator, regenerate_transaction_ids, client_backoff, network, config_vars, executable,
                   backoff, last_error, explicit_transaction_id, transaction_id,
                   explicit_node_indexes, attempt, sample, pos, request, requests, rpcs,
                   sleeps>>

\* execute.rs 144-185: a response arrives and its pre-check status is classified
PreCheck(pre_check_status) ==
    /\ pc = "rpc"
    /\ now' = now + 1
    /\ unhealthy_until' = Elapse(unhealthy_until, 1)
    /\ answer' = Some([kind |-> "Response", pre_check |-> pre_check_status])
    /\ LET code == from_i32(pre_check_status)
           arm == ClassifyPreCheck(pre_check_status, explicit_transaction_id)
       IN  CASE arm = "return" ->
                  /\ result' = Some(make_response(Unwrap(answer'), Unwrap(request).context,
                                        Unwrap(request).node_account_id, transaction_id))
                  /\ pc' = "done"
                  /\ UNCHANGED <<data_vars, last_error, transaction_id, pos>>
             [] arm = "next_node" ->
                  /\ last_error' = LastError(last_error, PreCheckStatus(Unwrap(code), transaction_id))
                  /\ Continue
                  /\ UNCHANGED <<data_vars, result, transaction_id>>
             [] arm = "regenerate" ->
                  /\ last_error' = LastError(last_error, PreCheckStatus(Unwrap(code), transaction_id))
                  /\ transaction_id' = RegeneratedTransactionId(transaction_id,
                                            generate_transaction_id(operator, now'))
                  /\ Continue
                  /\ result' = result
             [] arm = "fail" ->
                  /\ result' = Some(PreCheckStatus(Unwrap(code), transaction_id))
                  /\ pc' = "done"
                  /\ UNCHANGED <<data_vars, last_error, transaction_id, pos>>
             [] arm = "unrecognized" ->
                  /\ result' = Some(ResponseStatusUnrecognized(pre_check_status))
                  /\ pc' = "done"
                  /\ UNCHANGED <<data_vars, last_error, transaction_id, pos>>
    /\ UNCHANGED <<data_vars, operator, regenerate_transaction_ids, client_backoff, network, config_vars, executable,
                   backoff, explicit_transaction_id, explicit_node_indexes, attempt,
                   sample, request, requests, rpcs, sleeps>>

\* backoff.next_backoff(): None once the elapsed-time budget is spent
next_backoff(b, t) ==
    IF t - Unwrap(b).start_time > MaxElapsedTime THEN None ELSE Some(1)

\* execute.rs 188-190: the sample is used up; sleep until the next interval
BackoffSleep ==
    /\ pc = "backoff"
    /\ IsSome(next_backoff(backoff, now))
    /\ now' = now + Unwrap(next_backoff(backoff, now))
    /\ unhealthy_until' = Elapse(unhealthy_until, 1)
    /\ sleeps' = sleeps + 1
    /\ pc' = "loop"
    /\ UNCHANGED <<data_vars, operator, regenerate_transaction_ids, client_backoff, network, config_vars, executable,
                   backoff, last_error, explicit_transaction_id, transaction_id,
                   explicit_node_indexes, attempt, sample, pos, request, result,
                   requests, rpcs, answer>>

\* execute.rs 191-195: the elapsed-time budget is spent
BackoffTimedOut ==
    /\ pc = "backoff"
    /\ ~IsSome(next_backoff(backoff, now))
    /\ result' = IF IsSome(last_error)
                 THEN Some(TimedOut(Unwrap(last_error)))
                 ELSE Some(Panic)
    /\ pc' = "done"
    /\ UNCHANGED <<data_vars, client_vars, executable, backoff, last_error, explicit_transaction_id,
                   transaction_id, explicit_node_indexes, attempt, sample, pos, request,
                   obs_vars>>

\* the steps of a call once it has been entered
ExecuteNext ==
    \/ SelectNodes
    \/ AttemptsExhausted
    \/ MakeRequest
    \/ MakeRequestFails
    \/ \E code \in TransportCodes : TransportError(code)
    \/ DecodeFailure
    \/ \E i \in WireStatusCodes : PreCheck(i)
    \/ BackoffSleep
    \/ BackoffTimedOut

\* a client with the default retry configuration
Next ==
    \/ \E id \in Operators : set_operator(id)
    \/ \E value \in BOOLEAN : set_default_regenerate_transaction_id(value)
    \/ \E e \in Executables : Execute(e)
    \/ ExecuteNext

Spec == Init /\ [][Next]_vars

\* a client whose retry configuration is set before the call
NextConfigured ==
    \/ \E timeout \in RequestTimeoutSettings : set_request_timeout(timeout)
    \/ \E n \in MaxAttemptsSettings : set_max_attempts(n)
    \/ Next

SpecConfigured == Init /\ [][NextConfigured]_vars

\* requests that leave the choice of nodes to the client
SamplingExecutables == { e \in Executables : e.node_account_ids = None }

\* a client of the four-node network, without operator
NextSampling ==
    \/ \E e \in SamplingExecutables : Execute(e)
    \/ ExecuteNext

SpecSampling == Constructed(SamplingNetwork) /\ [][NextSampling]_vars

\* Client::set_network, at any moment of a call or outside one
set_network(new) ==
    /\ Len(new) >= Len(network)
    /\ network' = new
    /\ unhealthy_until' = update_from_addresses(network, unhealthy_until, new)
    /\ UNCHANGED <<data_vars, operator, regenerate_transaction_ids, client_backoff, config_vars,
                   now, executable, local_vars, obs_vars>>

\* a client whose network is replaced while it is in use
NextNetworkUpdate ==
    \/ \E new \in NetworkUpdates : set_network(new)
    \/ \E e \in Executables : Execute(e)
    \/ ExecuteNext

SpecNetworkUpdate == Init /\ [][NextNetworkUpdate]_vars

\* execute.rs 129 in another execute call on the same client: that call marks
\* node i unhealthy
ConcurrentCallMarksUnhealthy(i) ==
    /\ pc \notin {"idle", "done"}
    /\ \E delay \in 1 .. MaxNodeBackoff :
           unhealthy_until' = mark_node_unhealthy(unhealthy_until, i, delay)
    /\ UNCHANGED <<data_vars, operator, regenerate_transaction_ids, client_backoff, network,
                   config_vars, now, executable, local_vars, obs_vars>>

\* a client shared with another execute call
NextConcurrent ==
    \/ \E i \in DOMAIN network : ConcurrentCallMarksUnhealthy(i)
    \/ \E e \in Executables : Execute(e)
    \/ ExecuteNext

SpecConcurrent == Init /\ [][NextConcurrent]_vars

\* one call on a fresh client
NextCall ==
    \/ \E e \in Executables : Execute(e)
    \/ ExecuteNext

\* every RPC is answered and every sleep returns: a call that can take a step
\* takes one
SpecFair == Init /\ [][NextCall]_vars /\ WF_vars(ExecuteNext)

\* Client::set_operator from another task, while the call is running
ConcurrentSetOperator(id) ==
    /\ pc \notin {"idle", "done"}
    /\ operator' = Some(id)
    /\ UNCHANGED <<data_vars, regenerate_transaction_ids, client_backoff, network, config_vars,
                   unhealthy_until, now, executable, local_vars, obs_vars>>

\* requests that need a transaction id and carry none
GeneratingExecutables ==
    { e \in Executables : e.requires_transaction_id /\ e.transaction_id = None }

\* a client whose operator is replaced while a call is running
NextOperatorSwap ==
    \/ \E id \in Operators : set_operator(id)
    \/ \E id \in SwappedOperators : ConcurrentSetOperator(id)
    \/ \E e \in GeneratingExecutables : Execute(e)
    \/ ExecuteNext

SpecOperatorSwap == Init /\ [][NextOperatorSwap]_vars

\* mutant of SystemDelete_file_id: the contract id is kept
SystemDelete_file_id_KeepsContract(id) ==
    /\ system_delete' = [system_delete EXCEPT !.file_id = Some(id)]
    /\ UNCHANGED <<client_vars, executable, local_vars, obs_vars,
                   token_wipe, exchange_rate_set, exchange_rates>>

\* SystemDeleteTransaction::contract_id
SystemDelete_contract_id(id) ==
    /\ system_delete' = [system_delete EXCEPT !.file_id = None, !.contract_id = Some(id)]
    /\ UNCHANGED <<client_vars, executable, local_vars, obs_vars,
                   token_wipe, exchange_rate_set, exchange_rates>>

\* SystemDeleteTransaction::file_id
SystemDelete_file_id(id) ==
    /\ system_delete' = [system_delete EXCEPT !.contract_id = None, !.file_id = Some(id)]
    /\ UNCHANGED <<client_vars, executable, local_vars, obs_vars,
                   token_wipe, exchange_rate_set, exchange_rates>>

\* SystemDeleteTransaction::expiration_time
SystemDelete_expiration_time(t) ==
    /\ system_delete' = [system_delete EXCEPT !.expiration_time = Some(t)]
    /\ UNCHANGED <<client_vars, executable, local_vars, obs_vars,
                   token_wipe, exchange_rate_set, exchange_rates>>

\* SystemDeleteTransactionData::execute: the service whose system_delete RPC
\* is called
SystemDelete_execute(data) ==
    IF IsSome(data.file_id) THEN "FileService" ELSE "SmartContractService"

\* SystemDeleteTransactionData::to_transaction_data_protobuf
SystemDelete_to_transaction_data_protobuf(data) ==
    LET expiration_time == IF IsSome(data.expiration_time)
                           THEN Some(TimestampSeconds_from(Unwrap(data.expiration_time)))
                           ELSE None
        contract_id == Map_to_protobuf(data.contract_id)
        file_id == Map_to_protobuf(data.file_id)
        id == CASE IsSome(contract_id) ->
                       Some([variant |-> "ContractId", value |-> Unwrap(contract_id)])
                [] ~IsSome(contract_id) /\ IsSome(file_id) ->
                       Some([variant |-> "FileId", value |-> Unwrap(file_id)])
                [] OTHER -> None
    IN  [expiration_time |-> expiration_time, id |-> id]

\* a SystemDeleteTransaction built by its setters
NextSystemDelete ==
    \/ \E id \in EntityIds : SystemDelete_contract_id(id)
    \/ \E id \in EntityIds : SystemDelete_file_id(id)
    \/ \E t \in OffsetDateTimes : SystemDelete_expiration_time(t)

SpecSystemDelete == Init /\ [][NextSystemDelete]_vars

\* every u64 value
U64 == 0 .. 2 ^ TinybarBits - 1
\* the amounts and serial number lists a token wipe is given
WipeAmounts == {0, 1, 2 ^ (TinybarBits - 1), 2 ^ TinybarBits - 1}
\* every list of one serial number, and the longer lists of the serial
\* numbers at the ends of the i64 and u64 ranges
SerialSamples == {0, 1, 2 ^ (TinybarBits - 1) - 1, 2 ^ (TinybarBits - 1), 2 ^ TinybarBits - 1}
SerialLists ==
    [1 .. 1 -> U64] \cup UNION { [1 .. n -> SerialSamples] : n \in 0 .. MaxSerials }
\* the account and the token of a wipe
WipeEntityIds == { id \in EntityIds : id.num = MaxEntityNum }

\* TokenWipeTransaction::account_id
TokenWipe_account_id(id) ==
    /\ token_wipe' = [token_wipe EXCEPT !.account_id = Some(id)]
    /\ UNCHANGED <<client_vars, executable, local_vars, obs_vars,
                   system_delete, exchange_rate_set, exchange_rates>>

\* TokenWipeTransaction::token_id
TokenWipe_token_id(id) ==
    /\ token_wipe' = [token_wipe EXCEPT !.token_id = Some(id)]
    /\ UNCHANGED <<client_vars, executable, local_vars, obs_vars,
                   system_delete, exchange_rate_set, exchange_rates>>

\* TokenWipeTransaction::amount
TokenWipe_amount(a) ==
    /\ token_wipe' = [token_wipe EXCEPT !.amount = Some(a)]
    /\ UNCHANGED <<client_vars, executable, local_vars, obs_vars,
                   system_delete, exchange_rate_set, exchange_rates>>

\* TokenWipeTransaction::serials
TokenWipe_serials(list) ==
    /\ token_wipe' = [token_wipe EXCEPT !.serials = list]
    /\ UNCHANGED <<client_vars, executable, local_vars, obs_vars,
                   system_delete, exchange_rate_set, exchange_rates>>

\* Option<EntityId>::from_protobuf
Map_from_protobuf(o) == IF IsSome(o) THEN Some(EntityId_from_protobuf(Unwrap(o))) ELSE None

\* TokenWipeTransactionData::to_protobuf
TokenWipe_to_protobuf(d) ==
    [token |-> Map_to_protobuf(d.token_id),
     account |-> Map_to_protobuf(d.account_id),
     amount |-> IF IsSome(d.amount) THEN Unwrap(d.amount) ELSE 0,
     serial_numbers |-> [k \in DOMAIN d.serials |-> as_i64(d.serials[k])]]

\* mutant of TokenWipe_from_protobuf: an amount of zero is read as unset
TokenWipe_from_protobuf_ZeroIsUnset(pb) ==
    [ok |-> TRUE,
     value |-> [account_id |-> Map_from_protobuf(pb.account),
                token_id |-> Map_from_protobuf(pb.token),
                amount |-> IF pb.amount = 0 THEN None ELSE Some(pb.amount),
                serials |-> [k \in DOMAIN pb.serial_numbers |->
                                as_u64(pb.serial_numbers[k])]]]

\* TokenWipeTransactionData::from_protobuf
TokenWipe_from_protobuf(pb) ==
    [ok |-> TRUE,
     value |-> [account_id |-> Map_from_protobuf(pb.account),
                token_id |-> Map_from_protobuf(pb.token),
                amount |-> Some(pb.amount),
                serials |-> [k \in DOMAIN pb.serial_numbers |->
                                as_u64(pb.serial_numbers[k])]]]

\* a TokenWipeTransaction built by its setters
NextTokenWipe ==
    \/ \E id \in WipeEntityIds : TokenWipe_account_id(id)
    \/ \E id \in WipeEntityIds : TokenWipe_token_id(id)
    \/ \E a \in WipeAmounts : TokenWipe_amount(a)
    \/ \E list \in SerialLists : TokenWipe_serials(list)

SpecTokenWipe == Init /\ [][NextTokenWipe]_vars

\* every i32 value
I32 == -(2 ^ (RateBits - 1)) .. 2 ^ (RateBits - 1) - 1
\* services::ExchangeRate messages, with or without expiration time
ExchangeRateMessages ==
    [hbar_equiv : I32, cent_equiv : I32,
     expiration_time : {None, Some(TimestampSeconds_from([unix_timestamp |-> MaxSeconds]))}]
\* a few of them: one complete, one without expiration time
FewExchangeRateMessages ==
    { m \in ExchangeRateMessages : m.hbar_equiv = 1 /\ m.cent_equiv = -1 }
\* services::ExchangeRateSet messages: any rate beside one of the few, or none
ExchangeRateSets ==
    [current_rate : {None} \cup {Some(m) : m \in ExchangeRateMessages},
     next_rate : {None} \cup {Some(m) : m \in FewExchangeRateMessages}]
    \cup
    [current_rate : {None} \cup {Some(m) : m \in FewExchangeRateMessages},
     next_rate : {None} \cup {Some(m) : m \in ExchangeRateMessages}]

\* Result<T>
Ok(v) == [ok |-> TRUE, value |-> v]
Err(e) == [ok |-> FALSE, value |-> e]

\* ExchangeRate::from_protobuf
ExchangeRate_from_protobuf(pb) ==
    LET hbars == as_u32(pb.hbar_equiv)
        cents == as_u32(pb.cent_equiv)
    IN  IF IsSome(pb.expiration_time)
        THEN Ok([hbars |-> hbars, cents |-> cents,
                 expiration_time |-> OffsetDateTime_from(Unwrap(pb.expiration_time))])
        ELSE Err(FromProtobuf)

\* ExchangeRate::to_protobuf
ExchangeRate_to_protobuf(rate) ==
    [hbar_equiv |-> as_i32(rate.hbars),
     cent_equiv |-> as_i32(rate.cents),
     expiration_time |-> Some(TimestampSeconds_from(rate.expiration_time))]

\* ExchangeRates::from_protobuf: the current rate first, then the next one
ExchangeRates_from_protobuf(pb) ==
    IF ~IsSome(pb.current_rate) THEN Err(FromProtobuf)
    ELSE LET current_rate == ExchangeRate_from_protobuf(Unwrap(pb.current_rate))
         IN  IF ~current_rate.ok THEN current_rate
             ELSE IF ~IsSome(pb.next_rate) THEN Err(FromProtobuf)
             ELSE LET next_rate == ExchangeRate_from_protobuf(Unwrap(pb.next_rate))
                  IN  IF ~next_rate.ok THEN next_rate
                      ELSE Ok([current_rate |-> current_rate.value,
                               next_rate |-> next_rate.value])

\* ExchangeRates::to_protobuf
ExchangeRates_to_protobuf(rates) ==
    [current_rate |-> Some(ExchangeRate_to_protobuf(rates.current_rate)),
     next_rate |-> Some(ExchangeRate_to_protobuf(rates.next_rate))]

\* ExchangeRates::from_bytes of the bytes of the message pb, the one message
\* that is decoded
ExchangeRates_from_bytes(pb) ==
    /\ exchange_rate_set = None
    /\ exchange_rate_set' = Some(pb)
    /\ exchange_rates' = Some(ExchangeRates_from_protobuf(pb))
    /\ UNCHANGED <<client_vars, executable, local_vars, obs_vars,
                   system_delete, token_wipe>>

\* an exchange rate set is decoded
NextExchangeRates ==
    \E pb \in ExchangeRateSets : ExchangeRates_from_bytes(pb)

SpecExchangeRates == Init /\ [][NextExchangeRates]_vars

\* a client whose tunables are set and read, with no call in progress
NextClient ==
    \/ \E d \in BackoffSettings : set_min_backoff(d)
    \/ \E d \in BackoffSettings : set_max_backoff(d)
    \/ \E period \in PeriodSettings : set_network_update_period(period)
    \/ \E amount \in Amounts : set_default_max_transaction_fee(amount)
    \/ \E amount \in Amounts : set_default_max_query_payment(amount)

SpecClient == Init /\ [][NextClient]_vars

\* TokenInfoQueryData::validate_checksums: the token id of the request carries
\* no checksum, or the checksum computed for some ledger; it validates against
\* that ledger only
validate_checksums(e, ledger) ==
    IF IsSome(e.token_id_checksum) /\ Unwrap(e.token_id_checksum) # ledger
    THEN [ok |-> FALSE, value |-> CannotValidateChecksum]
    ELSE [ok |-> TRUE, value |-> None]

\* requests whose token id carries a checksum or none
ChecksumExecutables ==
    { e @@ [token_id_checksum |-> c] :
        e \in Executables,
        c \in {None} \cup {Some(l) : l \in LedgerIds} }

\* a client whose checksum validation is configured before the call
NextChecksums ==
    \/ \E id \in {None} \cup {Some(l) : l \in LedgerIds} : set_ledger_id(id)
    \/ \E value \in BOOLEAN : set_auto_validate_checksums(value)
    \/ \E e \in ChecksumExecutables : Execute(e)
    \/ ExecuteNext

SpecChecksums == Init /\ [][NextChecksums]_vars

\* =================================================================== claims
\* this step is the return of the pending RPC with the given outcome
Answered(outcome) == pc = "rpc" /\ answer' = Some(outcome)
StatusOutcome(code) == [kind |-> "Status", code |-> code]
ResponseOutcome(i) == [kind |-> "Response", pre_check |-> i]
\* the node the pending RPC was sent to
AttemptedNode == sample[pos]
\* the inner loop goes on: to the next node of the sample, or past its end
ContinuesSample ==
    /\ pos < Len(sample) => pc' = "make_request" /\ pos' = pos + 1
    /\ pos >= Len(sample) => pc' = "backoff"
    /\ result' = None
\* the call has returned for good
ReturnedIsFinal == pc = "done" => UNCHANGED vars

\* C1 as stated: a transport error UNAVAILABLE, RESOURCE_EXHAUSTED or INTERNAL
\* (GOAWAY is no tonic::Code of its own) does not fail the call: the node is
\* marked unhealthy, the error becomes last_error and the sample continues.
C1_AsStated ==
    [][\A code \in {"Unavailable", "ResourceExhausted", "Internal"} :
          Answered(StatusOutcome(code)) =>
              /\ ContinuesSample
              /\ last_error' = Some(GrpcStatus(code))
              /\ unhealthy_until'[AttemptedNode] > 0]_vars

\* C1 amended: a transport error UNAVAILABLE or RESOURCE_EXHAUSTED does not fail
\* the call: the node is marked unhealthy, the error becomes last_error and the
\* sample continues with its next node.
C1_UnhealthyStatusContinues ==
    [][\A code \in {"Unavailable", "ResourceExhausted"} :
          Answered(StatusOutcome(code)) =>
              /\ ContinuesSample
              /\ last_error' = Some(GrpcStatus(code))
              /\ unhealthy_until'[AttemptedNode] > 0]_vars

\* C1 witness: the first node of a two-node sample answered RESOURCE_EXHAUSTED,
\* it is quarantined and the second node is up next.
C1_Witness ==
    /\ pc = "make_request" /\ pos = 2 /\ Len(sample) = 2
    /\ answer = Some(StatusOutcome("ResourceExhausted"))
    /\ last_error = Some(GrpcStatus("ResourceExhausted"))
    /\ unhealthy_until[sample[1]] > 0
    /\ result = None

\* C2: a transport error with any other status is returned at once: the call
\* ends with that error, no RPC and no sleep follows, and the node's quarantine
\* is not extended.
C2_OtherStatusFailsImmediately ==
    [][/\ \A code \in TransportCodes \ {"Unavailable", "ResourceExhausted"} :
             Answered(StatusOutcome(code)) =>
                 /\ pc' = "done"
                 /\ result' = Some(GrpcStatus(code))
                 /\ rpcs' = rpcs /\ sleeps' = sleeps /\ requests' = requests
                 /\ \A i \in DOMAIN unhealthy_until :
                        unhealthy_until'[i] <= unhealthy_until[i]
       /\ ReturnedIsFinal]_vars

\* C2 witness: the second RPC of a call came back INTERNAL and the call ended
\* with that error.
C2_Witness ==
    /\ pc = "done" /\ rpcs = 2 /\ sleeps = 0
    /\ answer = Some(StatusOutcome("Internal"))
    /\ result = Some(GrpcStatus("Internal"))
    /\ unhealthy_until[AttemptedNode] = 0

\* C3 as stated: a response whose pre-check status is OK (0) or SUCCESS (22)
\* ends the call with make_response of that response, the context of its
\* request, the node's account id and the current transaction id.
C3_AsStated ==
    \A i \in {0, 22} :
        answer = Some(ResponseOutcome(i)) =>
            /\ pc = "done"
            /\ result = Some(make_response(ResponseOutcome(i), requests,
                                 network[AttemptedNode], transaction_id))

\* C3 amended: a response whose pre-check status is OK ends the call with
\* make_response of that response, the context of its request, the node's
\* account id and the current transaction id; OK is not treated as an error.
C3_OkReturnsResponse ==
    answer = Some(ResponseOutcome(0)) =>
        /\ pc = "done"
        /\ result = Some(make_response(ResponseOutcome(0), requests,
                             network[AttemptedNode], transaction_id))

\* C3 witness: the third request of a call was answered OK by node 0.0.4 and the
\* call returned its response with a generated transaction id.
C3_Witness ==
    /\ pc = "done" /\ requests = 3
    /\ answer = Some(ResponseOutcome(0))
    /\ Unwrap(result).kind = "Ok" /\ Unwrap(result).context = 3
    /\ Unwrap(result).node_account_id = 4
    /\ IsSome(Unwrap(result).transaction_id)

\* C4 as stated: a pre-check BUSY (12), PLATFORM_NOT_ACTIVE (67) or
\* PLATFORM_TRANSACTION_NOT_CREATED (69) does not fail the call: a PreCheckStatus
\* error becomes last_error and the sample continues.
C4_AsStated ==
    [][\A i \in {12, 67, 69} :
          Answered(ResponseOutcome(i)) =>
              /\ ContinuesSample
              /\ last_error' = Some(PreCheckStatus(ResponseCodeEnum[i], transaction_id))]_vars

\* C4 amended: a pre-check BUSY or PLATFORM_NOT_ACTIVE does not fail the call: a
\* PreCheckStatus error with that status becomes last_error and the sample
\* continues with its next node.
C4_BusyContinues ==
    [][\A i \in {12, 67} :
          Answered(ResponseOutcome(i)) =>
              /\ ContinuesSample
              /\ last_error' = Some(PreCheckStatus(ResponseCodeEnum[i], transaction_id))
              /\ transaction_id' = transaction_id]_vars

\* C4 witness: the first node of a two-node sample answered BUSY and the second
\* node is up next.
C4_Witness ==
    /\ pc = "make_request" /\ pos = 2 /\ Len(sample) = 2
    /\ answer = Some(ResponseOutcome(12))
    /\ last_error = Some(PreCheckStatus("Busy", transaction_id))
    /\ result = None

\* the call runs on a transaction id generated from the operator
GeneratedFromOperator ==
    /\ IsSome(executable) /\ Unwrap(executable).requires_transaction_id
    /\ explicit_transaction_id = None
    /\ IsSome(transaction_id)

\* C5: with a generated id and regenerate_transaction_ids on, a
\* TRANSACTION_EXPIRED answer replaces the id by a strictly later one; the id
\* never goes back, and every make_request is given the id then current.
C5_RegeneratedIdIsLater ==
    [][/\ (Answered(ResponseOutcome(4)) /\ GeneratedFromOperator
              /\ regenerate_transaction_ids) =>
             /\ IsSome(transaction_id')
             /\ Unwrap(transaction_id').valid_start > Unwrap(transaction_id).valid_start
             /\ result' = None
       /\ (IsSome(transaction_id) /\ explicit_transaction_id = None) =>
             /\ IsSome(transaction_id')
             /\ Unwrap(transaction_id').valid_start >= Unwrap(transaction_id).valid_start
       /\ (pc = "make_request" /\ pc' = "rpc") =>
             /\ Unwrap(request').transaction_id = transaction_id
             /\ transaction_id' = transaction_id]_vars

\* C5 witness: the id generated at the start expired, and the request now in
\* flight carries the later id that replaced it.
C5_Witness ==
    /\ pc = "rpc" /\ GeneratedFromOperator /\ regenerate_transaction_ids
    /\ last_error = Some(PreCheckStatus("TransactionExpired", Some(TransactionId("op1", 0))))
    /\ Unwrap(transaction_id).valid_start > 0
    /\ Unwrap(request).transaction_id = transaction_id

\* C6 as stated: after a TRANSACTION_EXPIRED answer that regenerates the id, no
\* backoff sleep is taken and no outer iteration is begun before the next RPC is
\* answered, wherever the expiring node stood in the sample.
C6_AsStated ==
    [][(/\ answer = Some(ResponseOutcome(4))
        /\ GeneratedFromOperator /\ regenerate_transaction_ids
        /\ pc # "done") =>
           sleeps' = sleeps /\ attempt' = attempt]_vars

\* C7 as stated: with regenerate_transaction_ids off, a TRANSACTION_EXPIRED
\* answer to a request with a generated id ends the call with PreCheckStatus and
\* leaves the transaction id as it was.
C7_AsStated ==
    (/\ answer = Some(ResponseOutcome(4))
     /\ ~regenerate_transaction_ids
     /\ GeneratedFromOperator) =>
        /\ pc = "done"
        /\ result = Some(PreCheckStatus("TransactionExpired", Unwrap(request).transaction_id))
        /\ transaction_id = Unwrap(request).transaction_id

\* C8 as stated: with an explicit transaction id, a TRANSACTION_EXPIRED answer
\* ends the call with PreCheckStatus carrying TRANSACTION_EXPIRED and that id.
C8_AsStated ==
    (answer = Some(ResponseOutcome(4)) /\ IsSome(explicit_transaction_id)) =>
        /\ pc = "done"
        /\ result = Some(PreCheckStatus("TransactionExpired", explicit_transaction_id))

\* C8 amended: with an explicit transaction id, a TRANSACTION_EXPIRED answer
\* ends the call with PreCheckStatus carrying TRANSACTION_EXPIRED and the id in
\* use (the explicit id when the request requires a transaction id, none
\* otherwise); the id is not regenerated and no request follows that answer.
C8_ExplicitIdExpiredSurfaces ==
    (answer = Some(ResponseOutcome(4)) /\ IsSome(explicit_transaction_id)) =>
        /\ pc = "done"
        /\ result = Some(PreCheckStatus("TransactionExpired", transaction_id))
        /\ transaction_id = Unwrap(request).transaction_id
        /\ transaction_id = IF Unwrap(executable).requires_transaction_id
                            THEN explicit_transaction_id ELSE None
        /\ rpcs = requests

\* C8 witness: the first and only RPC of a call with an explicit id was answered
\* TRANSACTION_EXPIRED while a second node of the sample was still untried.
C8_Witness ==
    /\ pc = "done" /\ rpcs = 1 /\ sleeps = 0 /\ Len(sample) = 2 /\ pos = 1
    /\ answer = Some(ResponseOutcome(4))
    /\ explicit_transaction_id = Some(TransactionId("user", 0))
    /\ result = Some(PreCheckStatus("TransactionExpired", explicit_transaction_id))

\* C9 as stated: every recognised pre-check status other than OK, SUCCESS, the
\* retryable ones and a TRANSACTION_EXPIRED that is regenerable (no explicit id
\* and regenerate_transaction_ids on) ends the call with PreCheckStatus carrying
\* that status and the id of that attempt.
C9_AsStated ==
    \A i \in DOMAIN ResponseCodeEnum :
        (/\ answer = Some(ResponseOutcome(i))
         /\ ResponseCodeEnum[i] \notin {"Ok", "Success", "Busy", "PlatformNotActive",
                                        "PlatformTransactionNotCreated"}
         /\ ~(/\ ResponseCodeEnum[i] = "TransactionExpired"
              /\ explicit_transaction_id = None
              /\ regenerate_transaction_ids)) =>
            /\ pc = "done"
            /\ result = Some(PreCheckStatus(ResponseCodeEnum[i],
                                            Unwrap(request).transaction_id))

\* C10: a pre-check status integer that is no known response code ends the call
\* with ResponseStatusUnrecognized carrying that integer; no other node is tried.
C10_UnrecognizedStatusFails ==
    \A i \in WireStatusCodes \ DOMAIN ResponseCodeEnum :
        answer = Some(ResponseOutcome(i)) =>
            /\ pc = "done"
            /\ result = Some(ResponseStatusUnrecognized(i))
            /\ rpcs = requests

\* C10 witness: the first node of a two-node sample answered with the unknown
\* status 9999 and the call ended without trying the second.
C10_Witness ==
    /\ pc = "done" /\ Len(sample) = 2 /\ pos = 1 /\ rpcs = 1
    /\ answer = Some(ResponseOutcome(9999))
    /\ result = Some(ResponseStatusUnrecognized(9999))

\* the account ids of the explicit node list of the request
ExplicitNodeIds ==
    { Unwrap(Unwrap(executable).node_account_ids)[k] :
        k \in DOMAIN Unwrap(Unwrap(executable).node_account_ids) }

\* C11: in a call with explicit node account ids, every request goes to one of
\* the listed nodes, and the sample of every outer iteration is all of them,
\* whatever their health.
C11_ExplicitNodesAllSampled ==
    (IsSome(explicit_node_indexes) /\ attempt > 0) =>
        /\ Len(sample) = Cardinality(ExplicitNodeIds)
        /\ { network[sample[k]] : k \in DOMAIN sample } = ExplicitNodeIds
        /\ IsSome(request) => Unwrap(request).node_account_id \in ExplicitNodeIds

\* C11 witness: an RPC is in flight to a listed node that is marked unhealthy,
\* in an iteration whose sample is both listed nodes.
C11_Witness ==
    /\ pc = "rpc" /\ IsSome(explicit_node_indexes) /\ Len(sample) = 2
    /\ unhealthy_until[AttemptedNode] > 0
    /\ Unwrap(request).node_index = AttemptedNode

\* the position of node index i in the explicit node list
ListPosition(i) ==
    CHOOSE k \in DOMAIN Unwrap(explicit_node_indexes) :
        Unwrap(explicit_node_indexes)[k] = i

\* C12 as stated: in a call with explicit node ids, the nodes attempted so far
\* in the current outer iteration were attempted in the order of the list.
C12_AsStated ==
    (pc = "rpc" /\ IsSome(explicit_node_indexes)) =>
        \A p, q \in 1 .. pos :
            p < q => ListPosition(sample[p]) < ListPosition(sample[q])

\* C12 amended: in a call with explicit (distinct) node ids, the order of an
\* outer iteration is drawn at random, and no listed node is attempted twice
\* in the same iteration.
C12_ExplicitNodesOncePerIteration ==
    (pc = "rpc" /\ IsSome(explicit_node_indexes)) =>
        \A p, q \in 1 .. pos : p < q => sample[p] # sample[q]

\* C12 witness: with the explicit list 0.0.4, 0.0.3 the node 0.0.3 was attempted
\* first and the RPC to 0.0.4 is in flight.
C12_Witness ==
    /\ pc = "rpc" /\ pos = 2
    /\ Unwrap(executable).node_account_ids = Some(<<4, 3>>)
    /\ network[sample[1]] = 3 /\ network[sample[2]] = 4
    /\ Unwrap(request).node_account_id = 4

\* the number of healthy nodes of the network
HealthyCount ==
    Cardinality({ i \in DOMAIN unhealthy_until : is_healthy(unhealthy_until, i) })

\* C13: without explicit node ids and with h >= 1 healthy nodes, an outer
\* iteration draws (h + 2) div 3 distinct healthy nodes; every RPC of the
\* iteration goes to a node of that sample, and an iteration that ends without
\* a terminal outcome has attempted all of them.
C13_SampleIsThirdOfHealthy ==
    [][/\ (/\ pc = "loop" /\ attempt' = attempt + 1
            /\ explicit_node_indexes = None /\ HealthyCount >= 1) =>
              /\ Len(sample') = (HealthyCount + 2) \div 3
              /\ \A p, q \in DOMAIN sample' : p # q => sample'[p] # sample'[q]
              /\ \A p \in DOMAIN sample' : is_healthy(unhealthy_until, sample'[p])
              /\ pos' = 1 /\ pc' = "make_request"
       /\ (explicit_node_indexes = None /\ rpcs' = rpcs + 1) =>
              pos \in DOMAIN sample /\ Unwrap(request').node_index = sample[pos]
       /\ (explicit_node_indexes = None /\ pc = "rpc" /\ pc' = "make_request") =>
              pos' = pos + 1
       /\ (explicit_node_indexes = None /\ pc = "rpc" /\ pc' = "backoff") =>
              pos = Len(sample)]_vars

\* C13 witness: with four healthy nodes the first iteration drew two of them,
\* both were attempted and answered retryably.
C13_Witness ==
    /\ pc = "backoff" /\ explicit_node_indexes = None /\ attempt = 1
    /\ Len(network) = 4 /\ Len(sample) = 2 /\ pos = 2 /\ rpcs = 2
    /\ result = None

C15_AsStated ==
    (/\ IsSome(executable) /\ IsSome(Unwrap(executable).node_account_ids)
     /\ \/ ExplicitNodeIds = {}
        \/ \E id \in ExplicitNodeIds : \A i \in DOMAIN network : network[i] # id) =>
        /\ pc = "done"
        /\ result = Some(NodeAccountUnknown)
        /\ requests = 0 /\ rpcs = 0

\* C16 as stated: the outer loop is bounded by the client's max_attempts: no
\* call begins more outer iterations than that, and a call that ends with
\* MaxAttemptsExceeded has run exactly that many.
C16_AsStated ==
    /\ attempt <= client_backoff.max_attempts
    /\ (pc = "done" /\ Unwrap(result).kind = "MaxAttemptsExceeded") =>
           attempt = client_backoff.max_attempts

\* the largest sample an outer iteration of the call can draw
SampleBound ==
    IF IsSome(explicit_node_indexes) THEN Len(Unwrap(explicit_node_indexes))
    ELSE node_sample_amount(Len(network), FALSE)

\* C17 as stated, for calls with an explicit transaction id (no regeneration
\* takes place in them): the call issues at most max_attempts x |sample| RPCs,
\* max_attempts being the client's.
C17_AsStated ==
    (IsSome(executable) /\ IsSome(explicit_transaction_id)) =>
        rpcs <= client_backoff.max_attempts * SampleBound

\* the error made of the latest answer, when that answer is retryable
ErrorOfAnswer ==
    LET a == Unwrap(answer)
    IN  IF a.kind = "Status" THEN GrpcStatus(a.code)
        ELSE PreCheckStatus(ResponseCodeEnum[a.pre_check], Unwrap(request).transaction_id)

\* C18: a call that ends with MaxAttemptsExceeded or TimedOut wraps the error
\* of the latest RPC answer of the call, which is the last error recorded.
C18_WrapsMostRecentError ==
    (pc = "done" /\ Unwrap(result).kind \in {"TimedOut", "MaxAttemptsExceeded"}) =>
        /\ Unwrap(result).source = ErrorOfAnswer
        /\ Some(Unwrap(result).source) = last_error

\* C18 witness: the call ran out of attempts; the wrapped error is a BUSY
\* answer to a regenerated transaction id, so an earlier
\* TRANSACTION_EXPIRED error had been recorded before it.
C18_Witness ==
    /\ pc = "done" /\ Unwrap(result).kind = "MaxAttemptsExceeded"
    /\ answer = Some(ResponseOutcome(12))
    /\ Unwrap(result).source.kind = "PreCheckStatus"
    /\ Unwrap(result).source.status = "Busy"
    /\ IsSome(Unwrap(result).source.transaction_id)
    /\ Unwrap(Unwrap(result).source.transaction_id).valid_start > 0

\* C19 as stated: with request_timeout set, a call whose sample is used up
\* after the request_timeout has elapsed ends with TimedOut wrapping the last
\* error instead of sleeping, however few outer iterations it has run.
C19_AsStated ==
    [][(/\ pc = "backoff" /\ IsSome(last_error)
        /\ IsSome(client_backoff.request_timeout)
        /\ now - Unwrap(backoff).start_time >= Unwrap(client_backoff.request_timeout)) =>
           /\ pc' = "done"
           /\ result' = Some(TimedOut(Unwrap(last_error)))]_vars

\* C20 as stated: a call that requires a transaction id, with no operator on
\* the client and no explicit id on the request, has ended with
\* NoPayerAccountOrTransactionId without a make_request and without an RPC.
C20_AsStated ==
    (/\ IsSome(executable) /\ Unwrap(executable).requires_transaction_id
     /\ explicit_transaction_id = None /\ operator = None) =>
        /\ pc = "done"
        /\ result = Some(NoPayerAccountOrTransactionId)
        /\ requests = 0 /\ rpcs = 0

\* C21 as stated: with auto_validate_checksums on and a ledger id set, a call
\* whose request fails validate_checksums for that ledger has ended with
\* CannotValidateChecksum without an RPC.
C21_AsStated ==
    (/\ IsSome(executable) /\ auto_validate_checksums /\ IsSome(ledger_id)
     /\ ~validate_checksums(Unwrap(executable), Unwrap(ledger_id)).ok) =>
        /\ pc = "done"
        /\ result = Some(CannotValidateChecksum)
        /\ rpcs = 0

\* make_response has been called: the call holds a typed response
MadeResponse == IsSome(result) /\ Unwrap(result).kind = "Ok"

\* C22: a call whose first RPC is answered OK ends there with one make_request,
\* one RPC, one make_response and no backoff sleep; in every call
\* make_response is called at most once, and only for an OK answer.
C22_FirstOkIsOneRpc ==
    [][/\ (rpcs = 1 /\ Answered(ResponseOutcome(0))) =>
             /\ pc' = "done" /\ MadeResponse'
             /\ requests' = 1 /\ rpcs' = 1 /\ sleeps' = 0
       /\ (MadeResponse' /\ ~MadeResponse) =>
             result = None /\ Answered(ResponseOutcome(0)) /\ pc' = "done"
       /\ MadeResponse => UNCHANGED vars]_vars

\* C22 witness: on the three-node network the first sampled node answered OK
\* and the call returned its response.
C22_Witness ==
    /\ pc = "done" /\ MadeResponse /\ Len(network) = 3
    /\ explicit_node_indexes = None
    /\ requests = 1 /\ rpcs = 1 /\ sleeps = 0 /\ attempt = 1
    /\ answer = Some(ResponseOutcome(0))

\* the first RPC of a call on the three-node network without explicit node
\* ids was answered UNAVAILABLE and the second has now been answered OK
UnavailableThenOk ==
    /\ Len(network) = 3 /\ IsSome(executable) /\ explicit_node_indexes = None
    /\ rpcs = 2
    /\ last_error = Some(GrpcStatus("Unavailable"))
    /\ answer = Some(ResponseOutcome(0))

\* C23 as stated: with three healthy nodes and no explicit node ids, a first
\* answer UNAVAILABLE followed by an OK answer ends the call with that OK
\* response, without any backoff sleep, the answering node being healthy.
C23_AsStated ==
    UnavailableThenOk =>
        /\ pc = "done" /\ MadeResponse
        /\ sleeps = 0
        /\ is_healthy(unhealthy_until, AttemptedNode)

\* C23 amended: with three healthy nodes and no explicit node ids the sample
\* is one node: a first answer UNAVAILABLE marks that node, and no other,
\* unhealthy and is followed by a backoff sleep; when the node of the second
\* iteration answers OK the call ends with its response after exactly one
\* sleep, and that node is healthy.
C23_UnavailableThenOkSleepsOnce ==
    [][(Len(network) = 3 /\ explicit_node_indexes = None) =>
          /\ (rpcs = 1 /\ Answered(StatusOutcome("Unavailable"))) =>
                /\ unhealthy_until'[AttemptedNode] > 0
                /\ \A j \in DOMAIN network \ {AttemptedNode} : unhealthy_until'[j] = 0
                /\ pc' = "backoff" /\ sleeps' = 0
          /\ (rpcs = 2 /\ last_error = Some(GrpcStatus("Unavailable"))
                  /\ Answered(ResponseOutcome(0))) =>
                /\ pc' = "done" /\ MadeResponse'
                /\ Unwrap(result').node_account_id = network[AttemptedNode]
                /\ sleeps' = 1 /\ attempt' = 2
                /\ is_healthy(unhealthy_until', AttemptedNode)]_vars

\* C23 witness: the call returned the OK response of the node of its second
\* iteration, after one sleep that followed the UNAVAILABLE of the first.
C23_Witness ==
    /\ UnavailableThenOk /\ pc = "done" /\ MadeResponse
    /\ sleeps = 1 /\ attempt = 2
    /\ Unwrap(result).node_account_id = network[AttemptedNode]

\* the positions of the sample whose node is still to be resolved
PendingSample ==
    { k \in DOMAIN sample : k > pos \/ (k = pos /\ pc = "make_request") }

\* C24 as stated: a network update applied inside an outer iteration leaves
\* every member of the sample still to be attempted resolving to the node it
\* denoted before the update.
C24_AsStated ==
    [][(pc \in {"make_request", "rpc"} /\ network' # network) =>
          \A k \in PendingSample :
              /\ sample[k] \in DOMAIN network'
              /\ network'[sample[k]] = network[sample[k]]]_vars

\* C25: a step that marks a node unhealthy leaves the unhealthy_until instant
\* of every other node as it was; whatever a concurrent call has marked, an
\* outer iteration without explicit node ids draws a non-empty sample, of
\* healthy nodes when there are any, and sends its request to it.
C25_MarkingIsPerNode ==
    [][/\ \A i \in DOMAIN network :
             unhealthy_until'[i] > unhealthy_until[i] =>
                 \A j \in DOMAIN network \ {i} :
                     unhealthy_until'[j] = Elapse(unhealthy_until, now' - now)[j]
       /\ (pc = "loop" /\ attempt' = attempt + 1 /\ explicit_node_indexes = None) =>
             /\ sample' # <<>> /\ pc' = "make_request"
             /\ HealthyCount >= 1 =>
                    \A k \in DOMAIN sample' : is_healthy(unhealthy_until, sample'[k])
       /\ rpcs' = rpcs + 1 => Unwrap(request').node_index = sample[pos]]_vars

\* C25 witness: the first RPC of the call is in flight to a healthy node while
\* another node is unhealthy, marked by the concurrent call.
C25_Witness ==
    /\ pc = "rpc" /\ rpcs = 1 /\ attempt = 1 /\ explicit_node_indexes = None
    /\ is_healthy(unhealthy_until, AttemptedNode)
    /\ \E i \in DOMAIN network : i # AttemptedNode /\ ~is_healthy(unhealthy_until, i)

\* C26 as stated: a client on which no tunable has been set has min_backoff
\* 250 ms, max_backoff 8 s, max_attempts 10, no request timeout and no grpc
\* timeout.
C26_AsStated ==
    call = None =>
        /\ min_backoff(client_backoff) = 250
        /\ max_backoff(client_backoff) = 8000
        /\ client_backoff.max_attempts = 10
        /\ client_backoff.request_timeout = None
        /\ client_backoff.grpc_timeout = None

\* C26: a client on which no tunable has been set has the initial and maximum
\* interval of the backoff library as min_backoff and max_backoff, 500 ms and
\* 60 s, max_attempts 10, no request timeout and no grpc timeout.
C26_DefaultsAreLibraryDefaults ==
    call = None =>
        /\ min_backoff(client_backoff) = 500
        /\ max_backoff(client_backoff) = 60000
        /\ client_backoff.max_attempts = 10
        /\ client_backoff.request_timeout = None
        /\ client_backoff.grpc_timeout = None

C26_Witness ==
    /\ call = None /\ pc = "idle" /\ executable = None
    /\ client_backoff.max_attempts = max_attempts

\* C27 as stated: set_min_backoff(d) leaves a client whose min_backoff() is d
\* and whose max_backoff() is what it was before the call.
C27_AsStated ==
    [][\A d \in BackoffSettings :
          set_min_backoff(d) =>
              /\ min_backoff(client_backoff') = d
              /\ max_backoff(client_backoff') = max_backoff(client_backoff)]_vars

\* C28 as stated: set_network_update_period(p) leaves a client whose
\* network_update_period() is p, and the receivers of the period are notified
\* when p differs from the period before.
C28_AsStated ==
    [][\A p \in PeriodSettings :
          set_network_update_period(p) =>
              /\ network_update_period(network_update_tx') = p
              /\ p # network_update_period(network_update_tx) =>
                     network_update_tx'.notified]_vars

\* C29: zero is unlimited for both defaults. A fresh client reads None; a set
\* of a > 0 is read back as Some(a); a set of zero is read back as None; a
\* set of a negative amount panics and leaves the stored value as it was.
C29_ZeroIsUnlimited ==
    [][/\ call = None =>
            /\ max_tinybar(max_transaction_fee_tinybar) = None
            /\ max_tinybar(max_query_payment_tinybar) = None
       /\ \A a \in Amounts :
            /\ set_default_max_transaction_fee(a) =>
                 /\ a > 0 => max_tinybar(max_transaction_fee_tinybar') = Some(a)
                 /\ a = 0 => max_tinybar(max_transaction_fee_tinybar') = None
                 /\ a < 0 => /\ Unwrap(call').outcome = "Panic"
                             /\ max_transaction_fee_tinybar' = max_transaction_fee_tinybar
            /\ set_default_max_query_payment(a) =>
                 /\ a > 0 => max_tinybar(max_query_payment_tinybar') = Some(a)
                 /\ a = 0 => max_tinybar(max_query_payment_tinybar') = None
                 /\ a < 0 => /\ Unwrap(call').outcome = "Panic"
                             /\ max_query_payment_tinybar' = max_query_payment_tinybar]_vars

C29_Witness ==
    /\ call = Some(Call("set_default_max_query_payment", -1, "Panic"))
    /\ max_tinybar(max_query_payment_tinybar) = Some(2 ^ (TinybarBits - 1) - 1)
    /\ max_tinybar(max_transaction_fee_tinybar) = None

\* C30 as stated: at the two exits that unwrap last_error, TimedOut and
\* MaxAttemptsExceeded, an error has been recorded, whatever the request.
C30_AsStated ==
    [][(AttemptsExhausted \/ BackoffTimedOut) => IsSome(last_error)]_vars

\* the call runs a request that does not require a transaction id
NoTransactionIdRequired ==
    IsSome(executable) /\ ~Unwrap(executable).requires_transaction_id

\* C31 as stated: for a request that does not require a transaction id, the
\* request in flight was made with no transaction id and the response made at
\* the end carries none, whatever the nodes have answered.
C31_AsStated ==
    NoTransactionIdRequired =>
        /\ pc = "rpc" => Unwrap(request).transaction_id = None
        /\ MadeResponse => Unwrap(result).transaction_id = None

\* the latest RPC answer is one the inner loop continues after
RetryableAnswer ==
    /\ IsSome(answer)
    /\ \/ /\ Unwrap(answer).kind = "Status" /\ IsUnhealthyCode(Unwrap(answer).code)
       \/ /\ Unwrap(answer).kind = "Response"
          /\ ClassifyPreCheck(Unwrap(answer).pre_check, explicit_transaction_id)
                 \in {"next_node", "regenerate"}

\* C32: the backoff is consulted only once the sample of the outer iteration
\* is used up, every node of it having been attempted with a retryable answer;
\* a sleep is a step from there to the next outer iteration, so no sleep
\* lies between two node attempts of one iteration, and the sleeps of a call
\* never outnumber its outer iterations.
C32_SleepOnlyBetweenIterations ==
    [][/\ pc = "backoff" =>
            /\ sample = <<>> \/ (pos = Len(sample) /\ RetryableAnswer)
            /\ result = None
            /\ sleeps = attempt - 1
       /\ sleeps <= attempt /\ sleeps' <= attempt'
       /\ sleeps' # sleeps =>
            /\ pc = "backoff" /\ pc' = "loop"
            /\ sleeps' = sleeps + 1 /\ rpcs' = rpcs /\ requests' = requests
       /\ (pc = "rpc" /\ pc' = "make_request") =>
            /\ sleeps' = sleeps /\ attempt' = attempt /\ pos' = pos + 1]_vars

\* C32 witness: both nodes of an explicit list were attempted in the first
\* outer iteration, the call slept once, and the second iteration is at its
\* second node.
C32_Witness ==
    /\ pc = "rpc" /\ attempt = 2 /\ sleeps = 1 /\ rpcs = 4
    /\ Len(sample) = 2 /\ pos = 2

C34_AsStated ==
    [][Answered(ResponseOutcome(0)) =>
          /\ pc' = "done" /\ MadeResponse'
          /\ is_healthy(unhealthy_until', AttemptedNode)]_vars

\* C35 as stated: an id that replaces the id of the call (a regeneration) has
\* the payer of the id it replaces, hence the payer read from the operator at
\* the start of the call, whatever set_operator has done meanwhile.
C35_AsStated ==
    [][(pc # "idle" /\ IsSome(transaction_id) /\ IsSome(transaction_id')) =>
          Unwrap(transaction_id').payer = Unwrap(transaction_id).payer]_vars

\* the id of a running call is replaced only on a TRANSACTION_EXPIRED answer,
\* and every make_request is given the id then current
IdChangesOnlyOnExpiry ==
    /\ (pc # "idle" /\ transaction_id' # transaction_id) =>
          Answered(ResponseOutcome(4))
    /\ (pc = "make_request" /\ pc' = "rpc") =>
          /\ Unwrap(request').transaction_id = transaction_id
          /\ transaction_id' = transaction_id

\* C36 as stated: the id of a running call is replaced only on a
\* TRANSACTION_EXPIRED answer, every make_request is given the id then
\* current, and with an explicit id every make_request is given that id.
C36_AsStated ==
    [][/\ IdChangesOnlyOnExpiry
       /\ (pc = "make_request" /\ pc' = "rpc" /\ IsSome(explicit_transaction_id)) =>
             Unwrap(request').transaction_id = explicit_transaction_id]_vars

\* C36 amended: the id of a running call is replaced only on a
\* TRANSACTION_EXPIRED answer and every make_request is given the id then
\* current; with an explicit id every make_request is given that id when the
\* request requires a transaction id, and none when it does not.
C36_IdStableUnlessExpired ==
    [][/\ IdChangesOnlyOnExpiry
       /\ (pc = "make_request" /\ pc' = "rpc" /\ IsSome(explicit_transaction_id)) =>
             Unwrap(request').transaction_id =
                 IF Unwrap(executable).requires_transaction_id
                 THEN explicit_transaction_id ELSE None]_vars

\* C36 witness: a call with an explicit id on a client with an operator has
\* slept once and is at the second node of its second outer iteration, the
\* request carrying the explicit id.
C36_Witness ==
    /\ pc = "rpc" /\ attempt = 2 /\ sleeps = 1 /\ pos = 2
    /\ operator = Some("op1")
    /\ Unwrap(executable).requires_transaction_id
    /\ explicit_transaction_id = Some(TransactionId("user", 0))
    /\ Unwrap(request).transaction_id = explicit_transaction_id

\* C37 as stated: no call begins more than max_attempts outer iterations, and
\* every call that has started comes to a return, with a response or an
\* error, whatever the nodes answer.
C37_AsStated ==
    /\ [](attempt <= max_attempts)
    /\ (pc # "idle") ~> (pc = "done" /\ IsSome(result) /\ Unwrap(result) # Panic)

\* C38: a SystemDeleteTransaction built by its setters never has both ids;
\* contract_id(id) leaves that contract id and no file id, file_id(id) that
\* file id and no contract id, expiration_time(t) leaves both as they were;
\* and when an id is set the RPC goes to the file service exactly when the
\* protobuf body carries the FileId variant, to the smart-contract service
\* exactly when it carries the ContractId variant, with the id that is set.
C38_ServiceMatchesIdVariant ==
    /\ [](LET data == system_delete
              pb == SystemDelete_to_transaction_data_protobuf(data)
          IN  /\ ~(IsSome(data.file_id) /\ IsSome(data.contract_id))
              /\ IsSome(data.file_id) =>
                    /\ SystemDelete_execute(data) = "FileService"
                    /\ pb.id = Some([variant |-> "FileId",
                                     value |-> EntityId_to_protobuf(Unwrap(data.file_id))])
              /\ IsSome(data.contract_id) =>
                    /\ SystemDelete_execute(data) = "SmartContractService"
                    /\ pb.id = Some([variant |-> "ContractId",
                                     value |-> EntityId_to_protobuf(Unwrap(data.contract_id))]))
    /\ [][/\ \A id \in EntityIds :
               /\ SystemDelete_contract_id(id) =>
                     system_delete'.contract_id = Some(id) /\ system_delete'.file_id = None
               /\ SystemDelete_file_id(id) =>
                     system_delete'.file_id = Some(id) /\ system_delete'.contract_id = None
          /\ \A t \in OffsetDateTimes :
               SystemDelete_expiration_time(t) =>
                   /\ system_delete'.file_id = system_delete.file_id
                   /\ system_delete'.contract_id = system_delete.contract_id]_vars

\* C38 witness: a transaction with an expiration time whose file id replaced
\* nothing or a contract id: it is routed to the file service.
C38_Witness ==
    /\ IsSome(system_delete.file_id) /\ system_delete.contract_id = None
    /\ IsSome(system_delete.expiration_time)
    /\ SystemDelete_execute(system_delete) = "FileService"
    /\ Unwrap(SystemDelete_to_transaction_data_protobuf(system_delete).id).variant = "FileId"

\* C39: for the data d of a TokenWipeTransaction, from_protobuf of
\* to_protobuf(d) succeeds and gives back the account id, the token id and
\* the serial numbers of d, each serial number through its cast to i64 and
\* back; the amount of d when it is set, and Some(0) when it is not.
C39_WipeRoundTrip ==
    LET d == token_wipe
        pb == TokenWipe_to_protobuf(d)
        r == TokenWipe_from_protobuf(pb)
    IN  /\ r.ok
        /\ r.value.account_id = d.account_id
        /\ r.value.token_id = d.token_id
        /\ r.value.serials = d.serials
        /\ \A k \in DOMAIN d.serials :
               pb.serial_numbers[k] \in -(2 ^ (TinybarBits - 1)) .. 2 ^ (TinybarBits - 1) - 1
        /\ r.value.amount = IF IsSome(d.amount) THEN d.amount ELSE Some(0)

\* C39 witness: a wipe with no amount whose serial numbers include u64::MAX
\* and 2^63, which are negative as i64.
C39_Witness ==
    /\ token_wipe.amount = None
    /\ IsSome(token_wipe.account_id) /\ IsSome(token_wipe.token_id)
    /\ token_wipe.serials = <<2 ^ TinybarBits - 1, 2 ^ (TinybarBits - 1)>>
    /\ TokenWipe_to_protobuf(token_wipe).serial_numbers = <<-1, -(2 ^ (TinybarBits - 1))>>
    /\ TokenWipe_from_protobuf(TokenWipe_to_protobuf(token_wipe)).value.amount = Some(0)

\* the message decoded has both rates, each with its expiration time
CompleteExchangeRateSet ==
    /\ IsSome(exchange_rate_set)
    /\ \A f \in {"current_rate", "next_rate"} :
          /\ IsSome(Unwrap(exchange_rate_set)[f])
          /\ IsSome(Unwrap(Unwrap(exchange_rate_set)[f]).expiration_time)

\* the rate decoded has the expiration time of its message
SameExpirationTime(rate, pb) ==
    TimestampSeconds_from(rate.expiration_time) = Unwrap(pb.expiration_time)

\* to_protobuf then from_protobuf gives the rates back
RatesRoundTrip(rates) ==
    ExchangeRates_from_protobuf(ExchangeRates_to_protobuf(rates)) = Ok(rates)

\* C40 as stated: a complete message decodes to rates whose hbars, cents and
\* expiration time are the hbar_equiv, cent_equiv and expiration_time of the
\* message, and which to_protobuf then from_protobuf gives back; an
\* incomplete message decodes to a FromProtobuf error.
C40_AsStated ==
    IsSome(exchange_rate_set) =>
        LET pb == Unwrap(exchange_rate_set)
            r == Unwrap(exchange_rates)
        IN  IF CompleteExchangeRateSet
            THEN /\ r.ok
                 /\ \A f \in {"current_rate", "next_rate"} :
                       /\ r.value[f].hbars = Unwrap(pb[f]).hbar_equiv
                       /\ r.value[f].cents = Unwrap(pb[f]).cent_equiv
                       /\ SameExpirationTime(r.value[f], Unwrap(pb[f]))
                 /\ RatesRoundTrip(r.value)
            ELSE r = Err(FromProtobuf)

\* C40 amended: a complete message decodes to rates whose hbars and cents
\* are the hbar_equiv and cent_equiv of the message reduced modulo 2^32 (the
\* same number when it is not negative, 2^32 more when it is), with the
\* expiration time of the message; to_protobuf then from_protobuf gives these
\* rates back, whatever u32 values they hold; an incomplete message decodes
\* to a FromProtobuf error.
C40_RatesDecodeModulo ==
    IsSome(exchange_rate_set) =>
        LET pb == Unwrap(exchange_rate_set)
            r == Unwrap(exchange_rates)
            Reduced(x) == IF x >= 0 THEN x ELSE x + 2 ^ RateBits
        IN  IF CompleteExchangeRateSet
            THEN /\ r.ok
                 /\ \A f \in {"current_rate", "next_rate"} :
                       /\ r.value[f].hbars = Reduced(Unwrap(pb[f]).hbar_equiv)
                       /\ r.value[f].cents = Reduced(Unwrap(pb[f]).cent_equiv)
                       /\ SameExpirationTime(r.value[f], Unwrap(pb[f]))
                 /\ RatesRoundTrip(r.value)
            ELSE r = Err(FromProtobuf)

\* C40 witness: a complete message whose current rate has hbar_equiv -1 and
\* cent_equiv i32::MIN was decoded to the hbars u32::MAX and the cents 2^31.
C40_Witness ==
    /\ CompleteExchangeRateSet
    /\ Unwrap(Unwrap(exchange_rate_set).current_rate).hbar_equiv = -1
    /\ Unwrap(Unwrap(exchange_rate_set).current_rate).cent_equiv = -(2 ^ (RateBits - 1))
    /\ Unwrap(exchange_rates).ok
    /\ Unwrap(exchange_rates).value.current_rate.hbars = 2 ^ RateBits - 1
    /\ Unwrap(exchange_rates).value.current_rate.cents = 2 ^ (RateBits - 1)

====
